---------------------------- MODULE Spec2Model ----------------------------
(***************************************************************************)
(* A model of rltf's categorical (C51) distributional target projection,   *)
(* the epsilon-greedy action selection of AgentDQN and the episode         *)
(* bookkeeping of StatsRecorder.                                           *)
(*                                                                         *)
(* Real numbers are exact rationals <<num, den>> in lowest terms with      *)
(* den > 0, so that floor, ceil, clipping and the interpolation weights    *)
(* are computed as the code computes them, without rounding.  Tensors are  *)
(* functions over the source's 0-based index ranges.  One row of a batch   *)
(* is modelled: every operation of the projection is elementwise in the    *)
(* batch dimension and row_inds only routes a row's updates to itself.     *)
(***************************************************************************)
EXTENDS Integers, Sequences, FiniteSets, TLC

(***************************************************************************)
(* Bounds of the model.                                                    *)
(***************************************************************************)
\* probability masses are multiples of 1/MassUnit
MassUnit == 2
\* rewards fed to the projection are k/2 for k in -RewMax..RewMax
RewMax == 3
\* number of actions of the environment
n_actions == 2
\* constructor arguments V_min, V_max range over -CtorMax..CtorMax
CtorMax == 2
\* constructor argument N ranges over 1..MaxN
MaxN == 3
\* agent steps t range over 0..MaxT
MaxT == 2
\* epsilon is k/EpsDen (k in 0..EpsDen), the uniform draw is k/UDen (k in 0..UDen-1)
EpsDen == 2
UDen == 4
\* the stats recorder is followed for at most MaxEnvSteps environment steps
MaxEnvSteps == 4
\* per-step rewards seen by the stats recorder are in 0..MaxStepRew
MaxStepRew == 1

(***************************************************************************)
(* Exact rational arithmetic.                                              *)
(***************************************************************************)
Abs(x) == IF x < 0 THEN -x ELSE x

RECURSIVE Gcd(_, _)
Gcd(a, b) == IF b = 0 THEN a ELSE Gcd(b, a % b)

\* n/d in lowest terms, d # 0
Rat(n, d) ==
  LET g == Gcd(Abs(n), Abs(d))
      s == IF d < 0 THEN -1 ELSE 1
  IN  <<(s * n) \div g, (s * d) \div g>>

I(n) == <<n, 1>>
\* The operations keep the denominator positive and leave the result
\* unreduced; Norm reduces a value before it is stored or compared with =,
\* and the result of a reduce_sum
Norm(x) == Rat(x[1], x[2])
RAdd(x, y) == <<x[1] * y[2] + y[1] * x[2], x[2] * y[2]>>
RSub(x, y) == <<x[1] * y[2] - y[1] * x[2], x[2] * y[2]>>
RMul(x, y) == <<x[1] * y[1], x[2] * y[2]>>
RDiv(x, y) == IF y[1] < 0 THEN <<-(x[1] * y[2]), -(x[2] * y[1])>>
                          ELSE <<x[1] * y[2], x[2] * y[1]>>
REq(x, y) == x[1] * y[2] = y[1] * x[2]
RLess(x, y) == x[1] * y[2] < y[1] * x[2]
RLeq(x, y) == x[1] * y[2] <= y[1] * x[2]
RMaximum(x, y) == IF RLess(x, y) THEN y ELSE x
RMinimum(x, y) == IF RLess(y, x) THEN y ELSE x
\* \div rounds towards minus infinity
RFloor(x) == I(x[1] \div x[2])
RCeil(x) == I(-((-x[1]) \div x[2]))
\* a tensor of rank 1 with every entry reduced
NormT(v) == [i \in DOMAIN v |-> Norm(v[i])]
\* reduce_sum of a rank-1 tensor v over its indices 0..n-1
RECURSIVE RSumTo(_, _)
RSumTo(v, n) == IF n = 0 THEN I(0) ELSE RAdd(RSumTo(v, n - 1), v[n - 1])
ReduceSum(v) == Norm(RSumTo(v, Cardinality(DOMAIN v)))
ReduceMean(v) == RDiv(ReduceSum(v), I(Cardinality(DOMAIN v)))

(***************************************************************************)
(* State.                                                                  *)
(***************************************************************************)
VARIABLES
  \* C51 object (c51.py __init__): "none" before construction
  obj, ctor_err, V_min, V_max, N, dz, gamma,
  \* placeholders fed to a run of the target op, and the online net at obs_tp1
  rew_t_ph, done_ph, target_net, agent_z,
  \* tensors of the last run of _compute_target
  cls, target_act, target_z, bin_inds_lo, bin_inds_hi, lo_add, hi_add,
  \* the tf.Variable the projection accumulates into, and the bins in which
  \* it held mass when the last run started
  target_z_var, held_mass,
  \* AgentDQN: the exploration schedule, and the last call of _action_train:
  \* its step, epsilon, the draw of prng.uniform, what the action-space sampler
  \* and the network return and which of them was called, the action returned
  exploration, agent_t, epsilon, prng_u, space_sample, net_action,
  sampler_called, net_called, action,
  \* StatsRecorder fields
  _mode, ep_steps, ep_reward, env_steps, train_steps, eval_steps,
  train_ep_lens, train_ep_rews, eval_ep_lens, eval_ep_rews,
  \* the last StatsRecorder call, its reward and done arguments and the
  \* exception it raised
  stats_call, stats_reward, stats_done, stats_err,
  \* the history of the StatsRecorder calls: whether an episode was started by
  \* after_reset and not ended by a done step since, the number of done steps,
  \* and per mode the steps of the episodes that ended while it was in force
  episode_open, done_steps, mode_steps,
  \* C51TS._act_train: the network's distributions at the observation, and in
  \* its last run the uniform draw, the bin selected for every action and the
  \* action returned
  agent_net, ts_sample, ts_inds, ts_action

c51vars == <<obj, ctor_err, V_min, V_max, N, dz, gamma, rew_t_ph, done_ph,
             target_net, agent_z, cls, target_act, target_z, bin_inds_lo, bin_inds_hi,
             lo_add, hi_add, target_z_var, held_mass>>

agentvars == <<exploration, agent_t, epsilon, prng_u, space_sample, net_action,
               sampler_called, net_called, action>>

statsvars == <<_mode, ep_steps, ep_reward, env_steps, train_steps, eval_steps,
               train_ep_lens, train_ep_rews, eval_ep_lens, eval_ep_rews,
               stats_call, stats_reward, stats_done, stats_err,
               episode_open, done_steps, mode_steps>>

tsvars == <<agent_net, ts_sample, ts_inds, ts_action>>

vars == <<c51vars, agentvars, statsvars, tsvars>>

(***************************************************************************)
(* C51.__init__ and C51.build                                              *)
(***************************************************************************)
Actions == 0 .. n_actions - 1

\* self.dz = (self.V_max - self.V_min) / float(self.N - 1)
Dz(vmin, vmax, n) == Norm(RDiv(RSub(vmax, vmin), I(n - 1)))

\* bins = np.arange(0, N) * dz + V_min
Bins(vmin, dz_, n) == [i \in 0 .. n - 1 |-> RAdd(RMul(I(i), dz_), vmin)]

bins == Bins(V_min, dz, N)

(***************************************************************************)
(* Tensor operations used by _compute_target                               *)
(***************************************************************************)
\* tf.argmax: an index holding the maximum; on ties TensorFlow does not
\* guarantee which one is returned, so every maximiser is a possible result
ArgMax(q) == {a \in DOMAIN q : \A b \in DOMAIN q : RLeq(q[b], q[a])}

\* tf.one_hot(act, n_actions)
OneHot(act) == [a \in Actions |-> IF a = act THEN I(1) ELSE I(0)]

\* tf.reduce_sum(z * a_mask, axis=1): the distribution of the masked action
MaskedSum(z, a_mask) ==
  [i \in 0 .. N - 1 |-> ReduceSum([a \in Actions |-> RMul(z[a][i], a_mask[a])])]

\* tf.clip_by_value(t, lo, hi) = minimum(maximum(t, lo), hi)
ClipByValue(t, lo, hi) == RMinimum(RMaximum(t, lo), hi)

\* tf.to_int32 of a float: truncation towards zero
ToInt32(x) == IF x[1] >= 0 THEN x[1] \div x[2] ELSE -((-x[1]) \div x[2])

\* a scatter that overwrites: the update of the last source index wins
ScatterNdUpdate(ref, inds, updates) ==
  [k \in DOMAIN ref |->
     LET src == {i \in DOMAIN updates : inds[i] = k}
     IN  IF src = {} THEN ref[k]
         ELSE updates[CHOOSE i \in src : \A j \in src : j <= i]]

\* tf.scatter_nd_add(ref, inds, updates) on one row: updates with the same
\* index are summed into ref
ScatterNdAdd(ref, inds, updates) ==
  [k \in DOMAIN ref |->
     RAdd(ref[k],
          ReduceSum([i \in DOMAIN updates |->
                       IF inds[i] = k THEN updates[i] ELSE I(0)]))]

(***************************************************************************)
(* C51._compute_target / C51TS._compute_target                             *)
(***************************************************************************)
\* Q as the expectation of Z in C51: reduce_sum(z * bins, axis=-1)
TargetQ(z) == [a \in Actions |-> ReduceSum([i \in 0 .. N - 1 |-> RMul(z[a][i], bins[i])])]

\* the bootstrap action chosen from the target network instead
AgentQFromTarget(z) == TargetQ(target_net)

\* the agent network's Q in C51TS: reduce_mean(agent_z * bins, axis=-1)
AgentQ(z) == [a \in Actions |-> ReduceMean([i \in 0 .. N - 1 |-> RMul(z[a][i], bins[i])])]

\* a mask that does not gate the bootstrap term
DoneMaskUngated(done) == I(1)

\* done_mask = cast(logical_not(done_ph), float32)
DoneMask(done) == IF done THEN I(0) ELSE I(1)

\* target_bins = clip_by_value(rew_t + gamma * done_mask * bins, V_min, V_max)
TargetBins(rew, done) ==
  [i \in 0 .. N - 1 |->
     ClipByValue(RAdd(rew, RMul(RMul(gamma, DoneMask(done)), bins[i])), V_min, V_max)]

\* bin_inds = (target_bins - V_min) / dz
BinInds(target_bins) == [i \in 0 .. N - 1 |-> RDiv(RSub(target_bins[i], V_min), dz)]

\* lo_add = target_z * (bin_inds_hi - bin_inds)
LoAdd(tz, bin_inds) ==
  [i \in 0 .. N - 1 |-> RMul(tz[i], RSub(RCeil(bin_inds[i]), bin_inds[i]))]

\* hi_add = target_z * (bin_inds - bin_inds_lo)
HiAdd(tz, bin_inds) ==
  [i \in 0 .. N - 1 |-> RMul(tz[i], RSub(bin_inds[i], RFloor(bin_inds[i])))]

\* the bins in which the tensor t holds mass
HeldMass(t) == IF t = <<>> THEN {} ELSE {k \in DOMAIN t : t[k][1] # 0}

\* an accumulator that is not reset: what the variable holds from the run before
StaleAccumulator == IF target_z_var = <<>> THEN [i \in 0 .. N - 1 |-> I(0)] ELSE target_z_var

\* zeros_like(target_bins), assigned to the variable at the start of every run
Zeros == [i \in 0 .. N - 1 |-> I(0)]

\* The projection of lines 89-124 for one row: the shifted and clipped atoms,
\* the two bin indices and masses of every source atom, and the variable after
\* assign(zeros) and the two scatter_nd_add ops
Projection(tz, rew, done) ==
  LET bin_inds == BinInds(TargetBins(rew, done))
      lo       == [i \in 0 .. N - 1 |-> ToInt32(RFloor(bin_inds[i]))]
      hi       == [i \in 0 .. N - 1 |-> ToInt32(RCeil(bin_inds[i]))]
      la       == LoAdd(tz, bin_inds)
      ha       == HiAdd(tz, bin_inds)
  IN  [bin_inds_lo |-> lo, bin_inds_hi |-> hi, lo_add |-> la, hi_add |-> ha,
       out |-> ScatterNdAdd(ScatterNdAdd(Zeros, lo, la), hi, ha)]

\* Everything after the bootstrap action is chosen, with the target network's
\* distributions net and the batch entries rew and done: mask the distribution
\* of act and project it
ProjectFed(net, rew, done, act) ==
  LET tz == MaskedSum(net, OneHot(act))
      p  == Projection(tz, rew, done)
  IN  /\ target_act' = act
      /\ held_mass' = HeldMass(target_z_var)
      /\ target_z' = NormT(tz)
      /\ bin_inds_lo' = p.bin_inds_lo
      /\ bin_inds_hi' = p.bin_inds_hi
      /\ lo_add' = NormT(p.lo_add)
      /\ hi_add' = NormT(p.hi_add)
      /\ target_z_var' = NormT(p.out)

\* a run with the placeholders as they are fed
Project(act) == ProjectFed(target_net, rew_t_ph, done_ph, act)

\* C51._compute_target: the greedy action of the target network itself
ComputeTarget ==
  /\ obj = "C51"
  /\ \E act \in ArgMax(TargetQ(target_net)) : Project(act)
  /\ cls' = "C51"
  /\ UNCHANGED <<obj, ctor_err, V_min, V_max, N, dz, gamma,
                 rew_t_ph, done_ph, target_net, agent_z>>
  /\ UNCHANGED <<agentvars, statsvars, tsvars>>

\* C51TS._compute_target: the greedy action of the agent network at obs_tp1
ComputeTargetTS ==
  /\ obj = "C51TS"
  /\ \E act \in ArgMax(AgentQ(agent_z)) : Project(act)
  /\ cls' = "C51TS"
  /\ UNCHANGED <<obj, ctor_err, V_min, V_max, N, dz, gamma,
                 rew_t_ph, done_ph, target_net, agent_z>>
  /\ UNCHANGED <<agentvars, statsvars, tsvars>>

\* One run of the target op of C51 with a new batch: _get_feed_dict feeds the
\* placeholders, the networks are evaluated on the batch, and the op runs
RunTarget(feed) ==
  /\ obj = "C51"
  /\ rew_t_ph' = feed.rew_t_ph
  /\ done_ph' = feed.done_ph
  /\ target_net' = feed.target_net
  /\ agent_z' = feed.agent_z
  /\ \E act \in ArgMax(TargetQ(feed.target_net)) :
       ProjectFed(feed.target_net, feed.rew_t_ph, feed.done_ph, act)
  /\ cls' = "C51"
  /\ UNCHANGED <<obj, ctor_err, V_min, V_max, N, dz, gamma>>
  /\ UNCHANGED <<agentvars, statsvars, tsvars>>

\* the same for C51TS
RunTargetTS(feed) ==
  /\ obj = "C51TS"
  /\ rew_t_ph' = feed.rew_t_ph
  /\ done_ph' = feed.done_ph
  /\ target_net' = feed.target_net
  /\ agent_z' = feed.agent_z
  /\ \E act \in ArgMax(AgentQ(feed.agent_z)) :
       ProjectFed(feed.target_net, feed.rew_t_ph, feed.done_ph, act)
  /\ cls' = "C51TS"
  /\ UNCHANGED <<obj, ctor_err, V_min, V_max, N, dz, gamma>>
  /\ UNCHANGED <<agentvars, statsvars, tsvars>>

(***************************************************************************)
(* C51TS._act_train                                                        *)
(***************************************************************************)
\* tf.cumsum(p, axis=-1, exclusive=True): entry i is the sum of p[0..i-1]
CumsumExclusive(p) == [i \in DOMAIN p |-> Norm(RSumTo(p, i))]

\* offset = tf.where(cdf <= sample, zeros_like(cdf), -2 * ones_like(cdf))
Offset(cdf, u) == [i \in DOMAIN cdf |-> IF RLeq(cdf[i], u) THEN I(0) ELSE I(-2)]

\* cdf + offset
CdfPlusOffset(p, u) ==
  LET cdf == CumsumExclusive(p)
      off == Offset(cdf, u)
  IN  [i \in DOMAIN p |-> RAdd(cdf[i], off[i])]

\* q = reduce_sum(bins * one_hot(inds, N), axis=-1): the atom of the bin
\* selected for every action
SampledQ(sel) ==
  [a \in Actions |->
     ReduceSum([i \in 0 .. N - 1 |-> RMul(bins[i], IF i = sel[a] THEN I(1) ELSE I(0))])]

\* C51TS._act_train(agent_net, name) with the uniform draw u of the row, the
\* same for every action; each tf.argmax returns any index of the maximum
ActTrainTS(u) ==
  /\ obj = "C51TS"
  /\ ts_sample' = u
  /\ \E sel \in [Actions -> 0 .. N - 1] :
       /\ \A a \in Actions : sel[a] \in ArgMax(CdfPlusOffset(agent_net[a], u))
       /\ ts_inds' = sel
       /\ ts_action' \in ArgMax(SampledQ(sel))
  /\ UNCHANGED agent_net
  /\ UNCHANGED <<c51vars, agentvars, statsvars>>

\* no run of C51TS._act_train is followed
TSIdle ==
  /\ agent_net = <<>>
  /\ ts_sample = <<>>
  /\ ts_inds = <<>>
  /\ ts_action = -1

(***************************************************************************)
(* AgentDQN._action_train                                                  *)
(***************************************************************************)
\* values of the exploration schedule and draws of prng.uniform(0, 1), which
\* lie in [0, 1)
Epsilons == {Rat(k, EpsDen) : k \in 0 .. EpsDen}
Draws == {Rat(k, UDen) : k \in 0 .. UDen - 1}

\* an exploration test that also explores when the draw equals epsilon
ExploresLeq(u, eps) == RLeq(u, eps)

\* if self.prng.uniform(0,1) < epsilon
Explores(u, eps) == RLess(u, eps)

\* no call of _action_train has been made
AgentIdle ==
  /\ agent_t = -1
  /\ epsilon = I(0)
  /\ prng_u = I(0)
  /\ space_sample = -1
  /\ net_action = -1
  /\ sampler_called = FALSE
  /\ net_called = FALSE
  /\ action = -1

\* _action_train(state, t): s is what env_train.action_space.sample() returns
\* when called and g what model.action_train(sess, state) returns when called
ActionTrain(t, u, s, g) ==
  LET eps == exploration[t]
  IN  /\ agent_t' = t
      /\ epsilon' = eps
      /\ prng_u' = u
      /\ space_sample' = s
      /\ net_action' = g
      /\ IF Explores(u, eps)
           THEN /\ action' = s
                /\ sampler_called' = TRUE
                /\ net_called' = FALSE
           ELSE /\ action' = g
                /\ sampler_called' = FALSE
                /\ net_called' = TRUE
      /\ UNCHANGED <<exploration, c51vars, statsvars, tsvars>>

(***************************************************************************)
(* StatsRecorder                                                           *)
(***************************************************************************)
\* Python's None in ep_steps and ep_reward (steps and rewards are >= 0)
None == -1

\* mode strings a caller may pass
ModeArgs == {"t", "e", "x"}
\* if mode not in ['t', 'e']
ValidModes == {"t", "e"}

\* the fields __init__ sets, for the mode argument m
StatsInit(m) ==
  /\ train_ep_rews = <<>>
  /\ train_ep_lens = <<>>
  /\ train_steps = 0
  /\ eval_ep_rews = <<>>
  /\ eval_ep_lens = <<>>
  /\ eval_steps = 0
  /\ ep_reward = None
  /\ ep_steps = None
  /\ env_steps = 0
  /\ _mode = m
  /\ stats_call = "__init__"
  /\ stats_reward = 0
  /\ stats_done = FALSE
  /\ stats_err = "none"
  /\ episode_open = FALSE
  /\ done_steps = 0
  /\ mode_steps = [md \in ModeArgs |-> 0]

\* the mode setter
SetMode(m) ==
  /\ stats_call' = "mode"
  /\ stats_reward' = 0
  /\ stats_done' = FALSE
  /\ IF m \notin ValidModes
       THEN /\ stats_err' = "Error"
            /\ UNCHANGED _mode
       ELSE /\ stats_err' = "none"
            /\ _mode' = m
  /\ UNCHANGED <<ep_steps, ep_reward, env_steps, train_steps, eval_steps,
                 train_ep_lens, train_ep_rews, eval_ep_lens, eval_ep_rews>>
  /\ UNCHANGED <<episode_open, done_steps, mode_steps>>
  /\ UNCHANGED <<c51vars, agentvars, tsvars>>

\* a _finish_episode that forgets the step total of the mode
FinishEpisodeNoTotal(steps, rew) ==
  IF _mode = "t"
    THEN /\ train_ep_lens' = Append(train_ep_lens, steps)
         /\ train_ep_rews' = Append(train_ep_rews, rew)
         /\ UNCHANGED <<train_steps, eval_steps, eval_ep_lens, eval_ep_rews>>
    ELSE /\ eval_ep_lens' = Append(eval_ep_lens, steps)
         /\ eval_ep_rews' = Append(eval_ep_rews, rew)
         /\ UNCHANGED <<eval_steps, train_steps, train_ep_lens, train_ep_rews>>

\* _finish_episode, with ep_steps = steps and ep_reward = rew.  np.int32 and
\* np.float32 keep a step count and a reward total of at most MaxEnvSteps *
\* MaxStepRew as they are
FinishEpisode(steps, rew) ==
  IF _mode = "t"
    THEN /\ train_steps' = train_steps + steps
         /\ train_ep_lens' = Append(train_ep_lens, steps)
         /\ train_ep_rews' = Append(train_ep_rews, rew)
         /\ UNCHANGED <<eval_steps, eval_ep_lens, eval_ep_rews>>
    ELSE /\ eval_steps' = eval_steps + steps
         /\ eval_ep_lens' = Append(eval_ep_lens, steps)
         /\ eval_ep_rews' = Append(eval_ep_rews, rew)
         /\ UNCHANGED <<train_steps, train_ep_lens, train_ep_rews>>

\* after_step(obs, reward, done, info); before the first after_reset ep_steps
\* is None and `self.ep_steps += 1` raises TypeError before any field changes
AfterStep(reward, done) ==
  /\ env_steps < MaxEnvSteps
  /\ stats_call' = "after_step"
  /\ stats_reward' = reward
  /\ stats_done' = done
  /\ IF ep_steps = None
       THEN /\ stats_err' = "TypeError"
            /\ UNCHANGED <<ep_steps, ep_reward, env_steps, train_steps, eval_steps,
                           train_ep_lens, train_ep_rews, eval_ep_lens, eval_ep_rews>>
            /\ UNCHANGED <<episode_open, done_steps, mode_steps>>
       ELSE /\ stats_err' = "none"
            /\ ep_steps' = ep_steps + 1
            /\ env_steps' = env_steps + 1
            /\ ep_reward' = ep_reward + reward
            /\ IF done
                 THEN /\ FinishEpisode(ep_steps + 1, ep_reward + reward)
                      /\ episode_open' = FALSE
                      /\ done_steps' = done_steps + 1
                      /\ mode_steps' = [mode_steps EXCEPT ![_mode] = @ + ep_steps + 1]
                 ELSE /\ UNCHANGED <<train_steps, eval_steps, train_ep_lens,
                                     train_ep_rews, eval_ep_lens, eval_ep_rews>>
                      /\ UNCHANGED <<episode_open, done_steps, mode_steps>>
  /\ UNCHANGED _mode
  /\ UNCHANGED <<c51vars, agentvars, tsvars>>

\* after_reset(obs)
AfterReset ==
  /\ stats_call' = "after_reset"
  /\ stats_reward' = 0
  /\ stats_done' = FALSE
  /\ stats_err' = "none"
  /\ ep_steps' = 0
  /\ ep_reward' = 0
  /\ episode_open' = TRUE
  /\ UNCHANGED <<_mode, env_steps, train_steps, eval_steps,
                 train_ep_lens, train_ep_rews, eval_ep_lens, eval_ep_rews>>
  /\ UNCHANGED <<done_steps, mode_steps>>
  /\ UNCHANGED <<c51vars, agentvars, tsvars>>

\* no StatsRecorder is followed
StatsIdle == StatsInit("t")

(***************************************************************************)
(* Inputs of the projection                                                *)
(***************************************************************************)
\* supports (V_min, V_max, N) the model is constructed with
Supports == {<<I(0), I(2), 3>>, <<I(-1), I(1), 2>>}
\* the support of the runs that compare the two bootstrap action selections
SupportsSelect == {<<I(-1), I(1), 2>>}
\* discount factors
Gammas == {I(1), Rat(1, 2)}
\* rewards, on both sides of the support and on and between its atoms
Rewards == {Rat(k, 2) : k \in -RewMax .. RewMax}
\* the reward of the runs that compare the two bootstrap action selections
RewardsSelect == {Rat(1, 2)}

RECURSIVE IntSumTo(_, _)
IntSumTo(f, n) == IF n = 0 THEN 0 ELSE IntSumTo(f, n - 1) + f[n - 1]

\* probability vectors over n atoms: non-negative masses k/MassUnit summing to 1
Dists(n) ==
  {[i \in 0 .. n - 1 |-> Rat(f[i], MassUnit)] :
     f \in {g \in [0 .. n - 1 -> 0 .. MassUnit] : IntSumTo(g, n) = MassUnit}}

\* outputs of a network: one distribution per action
Nets(n) == [Actions -> Dists(n)]

\* a tensor that has not been computed or fed
NoTensor == <<>>

\* A constructed model with a valid support (V_min < V_max, N >= 2), its
\* placeholders fed, before any run of the target op
InitModel(classes, supports, gammas, rewards) ==
  /\ obj \in classes
  /\ ctor_err = "none"
  /\ \E s \in supports :
       /\ V_min = s[1]
       /\ V_max = s[2]
       /\ N = s[3]
       /\ dz = Dz(s[1], s[2], s[3])
  /\ gamma \in gammas
  /\ rew_t_ph \in rewards
  /\ done_ph \in BOOLEAN
  /\ target_net \in Nets(N)
  /\ cls = "none"
  /\ target_act = -1
  /\ target_z = NoTensor
  /\ bin_inds_lo = NoTensor
  /\ bin_inds_hi = NoTensor
  /\ lo_add = NoTensor
  /\ hi_add = NoTensor
  /\ target_z_var = NoTensor
  /\ held_mass = {}

\* the projection of C51 over all rewards
InitC51 ==
  /\ InitModel({"C51"}, Supports, Gammas, Rewards)
  /\ agent_z = NoTensor
  /\ exploration = NoTensor
  /\ AgentIdle
  /\ TSIdle
  /\ StatsIdle

NextC51 == ComputeTarget

SpecC51 == InitC51 /\ [][NextC51]_vars

\* both classes, with the agent network's distributions at the next state
InitSelect ==
  /\ InitModel({"C51", "C51TS"}, SupportsSelect, Gammas, RewardsSelect)
  /\ agent_z \in Nets(N)
  /\ exploration = NoTensor
  /\ AgentIdle
  /\ TSIdle
  /\ StatsIdle

NextSelect == ComputeTarget \/ ComputeTargetTS

SpecSelect == InitSelect /\ [][NextSelect]_vars

\* Sequences of runs of the target op, each with a new batch.  The support is
\* 0, 1, 2; with the rewards 1/4 and 1/2 the shifted atoms fall on and between
\* the bins, and two source atoms can reach the same bin while another bin
\* receives nothing
SupportsCalls == {<<I(0), I(2), 3>>}
RewardsCalls == {Rat(1, 4), Rat(1, 2)}
\* outputs of the target network: any distribution for action 0, the whole
\* mass on the lowest atom for the other actions
NetsCalls ==
  {[a \in Actions |->
      IF a = 0 THEN d ELSE [i \in 0 .. N - 1 |-> Rat(IF i = 0 THEN MassUnit ELSE 0, MassUnit)]] :
     d \in Dists(N)}
\* batches: the agent network is evaluated right after the target network was
\* synchronised with it, so both give the same distributions
FeedsCalls ==
  {[rew_t_ph |-> r, done_ph |-> d, target_net |-> net, agent_z |-> net] :
     r \in RewardsCalls, d \in BOOLEAN, net \in NetsCalls}

InitCalls ==
  /\ InitModel({"C51", "C51TS"}, SupportsCalls, Gammas, RewardsCalls)
  /\ target_net \in NetsCalls
  /\ agent_z = target_net
  /\ exploration = NoTensor
  /\ AgentIdle
  /\ TSIdle
  /\ StatsIdle

NextCalls == \E feed \in FeedsCalls : RunTarget(feed) \/ RunTargetTS(feed)

SpecCalls == InitCalls /\ [][NextCalls]_vars

\* A constructed C51TS model over the support 0, 1, 2 with the distributions
\* of the agent network at the observation, and runs of its train action
InitActTS ==
  /\ obj = "C51TS"
  /\ ctor_err = "none"
  /\ V_min = I(0)
  /\ V_max = I(2)
  /\ N = 3
  /\ dz = Dz(I(0), I(2), 3)
  /\ gamma = I(1)
  /\ rew_t_ph = I(0)
  /\ done_ph = FALSE
  /\ target_net = NoTensor
  /\ agent_z = NoTensor
  /\ cls = "none"
  /\ target_act = -1
  /\ target_z = NoTensor
  /\ bin_inds_lo = NoTensor
  /\ bin_inds_hi = NoTensor
  /\ lo_add = NoTensor
  /\ hi_add = NoTensor
  /\ target_z_var = NoTensor
  /\ held_mass = {}
  /\ exploration = NoTensor
  /\ AgentIdle
  /\ StatsIdle
  /\ agent_net \in Nets(N)
  /\ ts_sample = NoTensor
  /\ ts_inds = NoTensor
  /\ ts_action = -1

NextActTS == \E u \in Draws : ActTrainTS(u)

SpecActTS == InitActTS /\ [][NextActTS]_vars

(***************************************************************************)
(* Construction of the model                                               *)
(***************************************************************************)
\* no model object exists
NoModel ==
  /\ obj = "none"
  /\ ctor_err = "none"
  /\ V_min = I(0)
  /\ V_max = I(0)
  /\ N = 0
  /\ dz = I(0)
  /\ gamma = I(0)
  /\ rew_t_ph = I(0)
  /\ done_ph = FALSE
  /\ target_net = NoTensor
  /\ agent_z = NoTensor
  /\ cls = "none"
  /\ target_act = -1
  /\ target_z = NoTensor
  /\ bin_inds_lo = NoTensor
  /\ bin_inds_hi = NoTensor
  /\ lo_add = NoTensor
  /\ hi_add = NoTensor
  /\ target_z_var = NoTensor
  /\ held_mass = {}

\* C51.__init__ (inherited by C51TS) with the arguments gamma = g, V_min = vmin,
\* V_max = vmax, N = n.  The only failure is Python's ZeroDivisionError in
\* (V_max - V_min) / float(N - 1) when N = 1; the half-built object is dropped
C51Init(class, g, vmin, vmax, n) ==
  /\ obj = "none"
  /\ ctor_err = "none"
  /\ IF n - 1 = 0
       THEN /\ ctor_err' = "ZeroDivisionError"
            /\ UNCHANGED <<obj, V_min, V_max, N, dz, gamma>>
       ELSE /\ obj' = class
            /\ gamma' = g
            /\ N' = n
            /\ V_min' = vmin
            /\ V_max' = vmax
            /\ dz' = Dz(vmin, vmax, n)
            /\ UNCHANGED ctor_err
  /\ UNCHANGED <<rew_t_ph, done_ph, target_net, agent_z, cls, target_act, target_z,
                 bin_inds_lo, bin_inds_hi, lo_add, hi_add, target_z_var, held_mass>>
  /\ UNCHANGED <<agentvars, statsvars, tsvars>>

CtorValues == {I(v) : v \in -CtorMax .. CtorMax}

InitCtor ==
  /\ NoModel
  /\ exploration = NoTensor
  /\ AgentIdle
  /\ TSIdle
  /\ StatsIdle

NextCtor ==
  \E class \in {"C51", "C51TS"}, g \in Gammas, vmin \in CtorValues,
     vmax \in CtorValues, n \in 1 .. MaxN :
    C51Init(class, g, vmin, vmax, n)

SpecCtor == InitCtor /\ [][NextCtor]_vars

(***************************************************************************)
(* Calls of the agent and of the stats recorder                            *)
(***************************************************************************)
\* an agent with any exploration schedule over the steps 0..MaxT
InitAgent ==
  /\ NoModel
  /\ exploration \in [0 .. MaxT -> Epsilons]
  /\ AgentIdle
  /\ TSIdle
  /\ StatsIdle

NextAgent ==
  \E t \in 0 .. MaxT, u \in Draws, s \in Actions, g \in Actions :
    ActionTrain(t, u, s, g)

SpecAgent == InitAgent /\ [][NextAgent]_vars

\* a recorder constructed with any mode argument: __init__ stores it unchecked
InitStats ==
  /\ NoModel
  /\ exploration = NoTensor
  /\ AgentIdle
  /\ TSIdle
  /\ \E m \in ModeArgs : StatsInit(m)

NextStats ==
  \/ \E m \in ModeArgs : SetMode(m)
  \/ \E reward \in 0 .. MaxStepRew, done \in BOOLEAN : AfterStep(reward, done)
  \/ AfterReset

SpecStats == InitStats /\ [][NextStats]_vars

\* The recorder as an environment monitor drives it: the first call is
\* after_reset, and after a done step after_reset comes before the next
\* after_step; the mode may be set and the environment reset at any time
NextEpisodes ==
  \/ \E m \in ModeArgs : SetMode(m)
  \/ \E reward \in 0 .. MaxStepRew, done \in BOOLEAN :
       episode_open /\ AfterStep(reward, done)
  \/ AfterReset

SpecEpisodes == InitStats /\ [][NextEpisodes]_vars

(***************************************************************************)
(* Properties of the projection                                            *)
(***************************************************************************)
\* the tensor with the entries of the sequence s at the indices 0..Len(s)-1
Vec(s) == [i \in 0 .. Len(s) - 1 |-> s[i + 1]]

\* the target op has run
Ran == cls # "none"

\* the atom of index i shifted by the reward and scaled, before clipping:
\* Tz_i = r + gamma * (1 - done) * z_i
ShiftedAtom(i) ==
  RAdd(rew_t_ph, RMul(RMul(gamma, IF done_ph THEN I(0) ELSE I(1)),
                      RAdd(V_min, RMul(I(i), dz))))

\* what source atom i added to output bin k in the two scatter ops
AddedTo(i, k) ==
  RAdd(IF bin_inds_lo[i] = k THEN lo_add[i] ELSE I(0),
       IF bin_inds_hi[i] = k THEN hi_add[i] ELSE I(0))

\* C1: after every run of the projection the output row sums to 1.
RowSumsToOne == Ran => REq(ReduceSum(target_z_var), I(1))

\* C2: whenever the bin coordinate of source atom i is an integer k
\* (floor = ceil = k), the projection adds the full mass target_z[i] to bin k
\* and nothing from that atom to any other bin.
ExactBinGetsFullMass ==
  Ran => \A i \in 0 .. N - 1 :
           bin_inds_lo[i] = bin_inds_hi[i] =>
             \A k \in 0 .. N - 1 :
               REq(AddedTo(i, k), IF k = bin_inds_lo[i] THEN target_z[i] ELSE I(0))

\* C3: after a run with done = True the output row is the one the projection
\* produces for the same reward from any other valid input distribution.
DoneTargetDependsOnlyOnReward ==
  (Ran /\ done_ph) =>
    \A d \in Dists(N) : NormT(Projection(d, rew_t_ph, TRUE).out) = target_z_var

\* a done = True run on a net whose two actions differ, with the reward
\* strictly between two atoms so that the row has two non-zero bins
DoneRunReached ==
  /\ Ran
  /\ done_ph
  /\ target_net[0] # target_net[1]
  /\ \E k \in 0 .. N - 2 : target_z_var[k][1] > 0 /\ target_z_var[k + 1][1] > 0

\* C4: a source atom with positive mass whose shifted value exceeds V_max has
\* its whole mass added to the topmost bin N-1, the row loses no mass, and
\* every written bin index is in 0..N-1.
ClippedMassGoesToTopBin ==
  Ran =>
    /\ \A i \in 0 .. N - 1 :
         (target_z[i][1] > 0 /\ RLess(V_max, ShiftedAtom(i))) =>
           /\ REq(AddedTo(i, N - 1), target_z[i])
           /\ RLeq(target_z[i], target_z_var[N - 1])
    /\ \A i \in 0 .. N - 1 : bin_inds_lo[i] \in 0 .. N - 1 /\ bin_inds_hi[i] \in 0 .. N - 1

\* C5: with N=3, V_min=0, V_max=2, gamma=1, reward=0.5, done=False and the
\* bootstrap distribution [0,1,0], the projected row is [0, 0.5, 0.5].
EndToEndScenario ==
  (/\ Ran
   /\ N = 3 /\ V_min = I(0) /\ V_max = I(2) /\ gamma = I(1)
   /\ rew_t_ph = Rat(1, 2) /\ ~done_ph
   /\ target_z = Vec(<<I(0), I(1), I(0)>>))
  => target_z_var = Vec(<<I(0), Rat(1, 2), Rat(1, 2)>>)

\* the scenario has run, on a net whose every action has the distribution [0,1,0]
EndToEndReached ==
  /\ Ran
  /\ N = 3 /\ V_min = I(0) /\ V_max = I(2) /\ gamma = I(1)
  /\ rew_t_ph = Rat(1, 2) /\ ~done_ph
  /\ \A a \in Actions : target_net[a] = Vec(<<I(0), I(1), I(0)>>)
  /\ target_z_var = Vec(<<I(0), Rat(1, 2), Rat(1, 2)>>)

\* the mass-weighted atom sum of a distribution p: sum_i p_i * z_i
ExpectedValue(p) ==
  ReduceSum([i \in 0 .. N - 1 |-> RMul(p[i], RAdd(V_min, RMul(I(i), dz)))])

\* a is an action of largest expected value in net
Maximises(a, net) == \A b \in Actions : RLeq(ExpectedValue(net[b]), ExpectedValue(net[a]))

\* C6: in double mode the bootstrap action maximises the online network's
\* mass-weighted atom sum and the projected distribution is the target
\* network's for that action; in plain mode the bootstrap action maximises
\* the target network's own mass-weighted atom sum.
BootstrapActionSelection ==
  /\ cls = "C51TS" => Maximises(target_act, agent_z) /\ target_z = target_net[target_act]
  /\ cls = "C51" => Maximises(target_act, target_net) /\ target_z = target_net[target_act]

\* a double-mode run in which the online and the target network prefer
\* different actions
DoubleDisagreesReached ==
  /\ cls = "C51TS"
  /\ ~Maximises(target_act, target_net)
  /\ Maximises(target_act, agent_z)
  /\ target_net[0] # target_net[1]

(***************************************************************************)
(* Properties of the action selection, the constructors and the recorder   *)
(***************************************************************************)
\* C7: in every call of _action_train, if the schedule gives epsilon = 1 the
\* returned action is the sampler's and the network is not consulted, and if
\* it gives epsilon = 0 the returned action is the network's and the sampler
\* is not used.
EpsilonExtremes ==
  agent_t >= 0 =>
    /\ epsilon = I(1) => (action = space_sample /\ sampler_called /\ ~net_called)
    /\ epsilon = I(0) => (action = net_action /\ net_called /\ ~sampler_called)

\* a call with epsilon = 0 and the smallest draw, 0, where the sampler and the
\* network would return different actions
GreedyAtZeroDrawReached ==
  /\ agent_t >= 0
  /\ epsilon = I(0)
  /\ prng_u = I(0)
  /\ space_sample # net_action
  /\ action = net_action

\* C8: no model object with V_min >= V_max is ever created.
NoDegenerateSupport == obj # "none" => RLess(V_min, V_max)

\* C9: in every reachable state the recorder's mode is 't' or 'e'.
ModeAlwaysValid == _mode \in {"t", "e"}

\* the step just taken is a successful after_step with done = True
DoneStep == stats_call' = "after_step" /\ stats_done' /\ stats_err' = "none"

\* the step appends the episode's step count and reward to the lists of the
\* mode (the train lists in mode 't', the eval lists otherwise) and adds the
\* step count to that mode's step total
Finalizes ==
  LET steps == ep_steps + 1
      rew   == ep_reward + stats_reward'
  IN  IF _mode = "t"
        THEN /\ train_ep_lens' = Append(train_ep_lens, steps)
             /\ train_ep_rews' = Append(train_ep_rews, rew)
             /\ train_steps' = train_steps + steps
             /\ UNCHANGED <<eval_ep_lens, eval_ep_rews, eval_steps>>
        ELSE /\ eval_ep_lens' = Append(eval_ep_lens, steps)
             /\ eval_ep_rews' = Append(eval_ep_rews, rew)
             /\ eval_steps' = eval_steps + steps
             /\ UNCHANGED <<train_ep_lens, train_ep_rews, train_steps>>

\* C10 as claimed: after_step with done = True finalizes the episode and
\* resets ep_steps and ep_reward.
DoneStepFinalizesAndResets ==
  [][DoneStep => (Finalizes /\ ep_steps' = 0 /\ ep_reward' = 0)]_vars

\* C10 as amended: after_step with done = True finalizes the episode and
\* leaves the finished episode's totals in ep_steps and ep_reward; every
\* successful after_step adds its step and reward to them; after_reset sets
\* both to 0.
DoneStepFinalizesResetOnAfterReset ==
  [][/\ DoneStep => Finalizes
     /\ (stats_call' = "after_step" /\ stats_err' = "none") =>
          (ep_steps' = ep_steps + 1 /\ ep_reward' = ep_reward + stats_reward')
     /\ stats_call' = "after_reset" => (ep_steps' = 0 /\ ep_reward' = 0)]_vars

\* a train episode was finished and, with no after_reset since the first one,
\* a later after_step added a step on top of the finished episode's count
StepOnTopOfFinishedReached ==
  /\ stats_call = "after_step"
  /\ stats_err = "none"
  /\ Len(train_ep_lens) = 1
  /\ eval_ep_lens = <<>>
  /\ env_steps = ep_steps
  /\ ep_steps > train_ep_lens[1]

(***************************************************************************)
(* Properties of sequences of runs of the target op                        *)
(***************************************************************************)
\* C11: in every run of the target op, whatever the runs before it left in the
\* variable, the accumulator starts from zero: every bin of the output holds
\* exactly the sum, over the source atoms, of what this run's two scatter ops
\* added to it - nothing left from an earlier run, and contributions of
\* different atoms to one bin summed, not overwritten.
EachRunAccumulatesFromZero ==
  Ran => \A k \in 0 .. N - 1 :
           REq(target_z_var[k], ReduceSum([i \in 0 .. N - 1 |-> AddedTo(i, k)]))

\* a run that started with mass left in a bin to which it adds nothing, and in
\* which two source atoms add mass to one bin
RunOverLeftMassReached ==
  /\ Ran
  /\ \E k \in held_mass : target_z_var[k][1] = 0
  /\ \E k \in 0 .. N - 1 : \E i, j \in 0 .. N - 1 :
       /\ i # j
       /\ AddedTo(i, k)[1] > 0
       /\ AddedTo(j, k)[1] > 0

(***************************************************************************)
(* Properties of the step counters of the StatsRecorder                    *)
(***************************************************************************)
\* C12: when the calls start with after_reset and every done step is followed
\* by after_reset before the next after_step, in every state env_steps =
\* train_steps + eval_steps + (ep_steps if the current episode is unfinished,
\* else 0), the number of recorded episodes equals the number of done steps,
\* and the steps of every finished episode are in the total of the mode that
\* was in force at the step that ended it.
StepCounterConservation ==
  /\ env_steps = train_steps + eval_steps + (IF episode_open THEN ep_steps ELSE 0)
  /\ Len(train_ep_lens) + Len(eval_ep_lens) = done_steps
  /\ train_steps = mode_steps["t"]
  /\ eval_steps = mode_steps["e"]

(***************************************************************************)
(* Properties of the sampled action selection                              *)
(***************************************************************************)
\* C13: after every run of C51TS._act_train with the draw u, the bin i selected
\* for every action with the distribution p satisfies cdf_excl(i) <= u <
\* cdf_excl(i) + p_i, so it holds mass p_i > 0, and the action returned
\* maximises the atom value of the selected bins over the actions.
InverseCdfSampling ==
  ts_sample # NoTensor =>
    /\ \A a \in Actions :
         LET p == agent_net[a]
             i == ts_inds[a]
             c == CumsumExclusive(p)[i]
         IN  /\ RLeq(c, ts_sample)
             /\ RLess(ts_sample, RAdd(c, p[i]))
             /\ p[i][1] > 0
    /\ \A b \in Actions : RLeq(bins[ts_inds[b]], bins[ts_inds[ts_action]])

=============================================================================
